---- MODULE Spec2Model ----
(***************************************************************************)
(* Model of correspondence.ipynb: the experiment driver of the Harmonic    *)
(* Surface Network correspondence experiment.  The notebook is a           *)
(* sequential script; the model follows its control flow statement by      *)
(* statement: the epoch loop, train(epoch), Net.forward and test().        *)
(* Tensors are modelled by their shapes, mesh-sample objects by tokens     *)
(* that record where they were produced, the parameter set by the number   *)
(* of optimizer steps applied to it, and the accumulated gradient by the   *)
(* set of batches whose backward pass contributed to it.                   *)
(***************************************************************************)
EXTENDS Integers, Sequences, FiniteSets, TLC

\* ------------------------------------------------------------------------
\* Bounds of the model (sizes of the datasets and of the meshes)
NumTrain == 2   \* len(train_dataset)
MaxTest == 2    \* largest len(test_dataset) explored
MaxV == 3       \* largest vertex count of a mesh explored

\* ------------------------------------------------------------------------
\* Program constants
NumEpochs == 100        \* range(100)
LrDropEpoch == 60       \* if epoch == 60
LrInit == 10            \* lr=0.01, in thousandths
LrReduced == 1          \* param_group['lr'] = 0.001, in thousandths
NumParamGroups == 1     \* Adam(model.parameters()): a single param group
max_order == 1
nf == <<16, 32>>
PoolRatioInv == 4       \* ratios[1] = 0.25
PosDim == 3             \* data.pos is V x 3
HiddenDim == 256        \* nn.Linear(nf[0], 256)

ParamGroups == 1..NumParamGroups

VARIABLES
    pc,          \* position of the driver
    err,         \* the exception that ended the run, "" when none
    epoch,       \* loop variable of the epoch loop
    lr,          \* optimizer.param_groups[g]['lr'], in thousandths
    training,    \* model.training
    net,         \* the layers built by Net.__init__
    numNodes,    \* num_nodes
    target,      \* target = arange(num_nodes)
    trainV,      \* vertex count of each training sample
    numTest,     \* len(test_dataset)
    remaining,   \* training samples the shuffled loader has not yet yielded
    cur,         \* the batch (one sample) being processed
    grad,        \* batches whose backward pass is accumulated in .grad
    params,      \* number of optimizer steps applied to the parameters
    batchNo,     \* serial number of the current training batch
    caller,      \* who called model(data): "train" or "test"
    fw,          \* locals of the forward pass in progress
    fwdId,       \* number of forward passes started
    out,         \* shape of the tensor Net.forward returned
    testIdx,     \* number of test samples the test loader has yielded
    pred,        \* arg-max prediction of the current test sample
    correct,     \* local variable of test()
    testAcc,     \* <<numerator, denominator>> of the value test() returned
    trainCalls,  \* history: the arguments of the calls of train, in order
    testCalls,   \* history: number of calls of test
    lrWrites,    \* history: number of assignments that changed lr
    stepsInBatch,\* history: optimizer steps applied for the current batch
    steps,       \* history: the steps taken for the current batch, in order
    testSeen,    \* history: the test samples compared with the target
    mismatchUsed \* history: a sample with a vertex count other than
                 \* num_nodes contributed to correct or to the parameters

vars == <<pc, err, epoch, lr, training, net, numNodes, target, trainV,
          numTest, remaining, cur, grad, params, batchNo, caller, fw, fwdId,
          out, testIdx, pred, correct, testAcc, trainCalls, testCalls,
          lrWrites, stepsInBatch, steps, testSeen, mismatchUsed>>

\* groups of variables, for the frame conditions
dataVars == <<net, numNodes, target, trainV, numTest>>
optVars == <<lr, grad, params>>
histVars == <<trainCalls, testCalls, lrWrites, stepsInBatch, steps, testSeen,
              mismatchUsed>>
histRest == <<trainCalls, testCalls, lrWrites, stepsInBatch, testSeen, mismatchUsed>>
testVars == <<testIdx, pred, correct, testAcc>>
fwVars == <<caller, fw, fwdId, out>>

\* ------------------------------------------------------------------------
\* Objects
NoData == [split |-> "none", idx |-> 0, nodes |-> 0, origin |-> "none", pass |-> 0]
NoShape == <<>>

\* a sample as a data loader yields it
Sample(split, i, v) ==
    [split |-> split, idx |-> i, nodes |-> v, origin |-> "loader", pass |-> 0]

\* target = torch.arange(num_nodes)
Arange(n) == [i \in 1..n |-> i - 1]

\* ------------------------------------------------------------------------
\* Layers
Linear(in, outw) == [in |-> in, out |-> outw]
HarmonicResNetBlock(in, outw, prevOrder) ==
    [in |-> in, out |-> outw, streamsIn |-> prevOrder + 1, streamsOut |-> max_order + 1]

\* variant: the head is not sized by num_nodes
NetInitHeadWidth(n) ==
    [lin0 |-> Linear(PosDim, nf[1]),
     resnet_block11 |-> HarmonicResNetBlock(nf[1], nf[1], 0),
     resnet_block12 |-> HarmonicResNetBlock(nf[1], nf[1], max_order),
     resnet_block21 |-> HarmonicResNetBlock(nf[1], nf[2], max_order),
     resnet_block22 |-> HarmonicResNetBlock(nf[2], nf[2], max_order),
     resnet_block31 |-> HarmonicResNetBlock(nf[2], nf[2], max_order),
     resnet_block32 |-> HarmonicResNetBlock(nf[2], nf[2], max_order),
     resnet_block41 |-> HarmonicResNetBlock(nf[2] + nf[1], nf[1], max_order),
     resnet_block42 |-> HarmonicResNetBlock(nf[1], nf[1], max_order),
     lin3 |-> Linear(nf[1], HiddenDim),
     lin4 |-> Linear(HiddenDim, nf[1])]

\* variant: the first decoder block ignores the skip connection's channels
NetInitNoSkipWidth(n) ==
    [lin0 |-> Linear(PosDim, nf[1]),
     resnet_block11 |-> HarmonicResNetBlock(nf[1], nf[1], 0),
     resnet_block12 |-> HarmonicResNetBlock(nf[1], nf[1], max_order),
     resnet_block21 |-> HarmonicResNetBlock(nf[1], nf[2], max_order),
     resnet_block22 |-> HarmonicResNetBlock(nf[2], nf[2], max_order),
     resnet_block31 |-> HarmonicResNetBlock(nf[2], nf[2], max_order),
     resnet_block32 |-> HarmonicResNetBlock(nf[2], nf[2], max_order),
     resnet_block41 |-> HarmonicResNetBlock(nf[2], nf[1], max_order),
     resnet_block42 |-> HarmonicResNetBlock(nf[1], nf[1], max_order),
     lin3 |-> Linear(nf[1], HiddenDim),
     lin4 |-> Linear(HiddenDim, n)]

\* Net.__init__
NetInit(n) ==
    [lin0 |-> Linear(PosDim, nf[1]),
     resnet_block11 |-> HarmonicResNetBlock(nf[1], nf[1], 0),
     resnet_block12 |-> HarmonicResNetBlock(nf[1], nf[1], max_order),
     resnet_block21 |-> HarmonicResNetBlock(nf[1], nf[2], max_order),
     resnet_block22 |-> HarmonicResNetBlock(nf[2], nf[2], max_order),
     resnet_block31 |-> HarmonicResNetBlock(nf[2], nf[2], max_order),
     resnet_block32 |-> HarmonicResNetBlock(nf[2], nf[2], max_order),
     resnet_block41 |-> HarmonicResNetBlock(nf[2] + nf[1], nf[1], max_order),
     resnet_block42 |-> HarmonicResNetBlock(nf[1], nf[1], max_order),
     lin3 |-> Linear(nf[1], HiddenDim),
     lin4 |-> Linear(HiddenDim, n)]

\* ------------------------------------------------------------------------
\* Tensor operations, on shapes
Last(s) == s[Len(s)]
SetDim(s, d, v) == [s EXCEPT ![d] = v]

\* a dense layer acts on the last axis
LinearOk(l, s) == Len(s) >= 1 /\ Last(s) = l.in
LinearApply(l, s) == SetDim(s, Len(s), l.out)

\* a residual block acts on a V x streams x channels x 2 tensor, with the
\* edges and precomputed operators of one scale of one mesh
BlockOk(b, s, at) ==
    /\ Len(s) = 4
    /\ s[1] = at.nodes
    /\ s[2] = b.streamsIn
    /\ s[3] = b.in
BlockApply(b, s) == <<s[1], b.streamsOut, b.out, s[4]>>

\* torch.stack((x, zeros_like(x)), dim=-1).unsqueeze(1)
ComplexLift(s) == <<s[1], 1>> \o SubSeq(s, 2, Len(s)) \o <<2>>

\* torch.cat((a, b), dim=d), d counted from 0
CatOk(a, b, d) ==
    /\ Len(a) = Len(b)
    /\ d + 1 \in 1..Len(a)
    /\ \A i \in 1..Len(a) : i # d + 1 => a[i] = b[i]
Cat(a, b, d) == SetDim(a, d + 1, a[d + 1] + b[d + 1])

\* magnitudes(x, keepdim=False): the norm over the last (complex) axis
Magnitudes(s) == SubSeq(s, 1, Len(s) - 1)

\* x.sum(dim=d), d counted from 0
SumDim(s, d) == SubSeq(s, 1, d) \o SubSeq(s, d + 2, Len(s))

\* number of vertices the coarse scale keeps
PooledCount(v) == (v + PoolRatioInv - 1) \div PoolRatioInv

\* broadcasting of two 1-D tensors of lengths a and b
BroadcastOk(a, b) == a = b \/ a = 1 \/ b = 1
BroadcastLen(a, b) == IF a >= b THEN a ELSE b
BIdx(len, i) == IF len = 1 THEN 1 ELSE i

\* pred.eq(target).sum().item()
RECURSIVE EqSumUpTo(_, _, _)
EqSumUpTo(p, t, n) ==
    IF n = 0 THEN 0
    ELSE EqSumUpTo(p, t, n - 1)
         + (IF p[BIdx(Len(p), n)] = t[BIdx(Len(t), n)] THEN 1 ELSE 0)

\* variant: counts the entries that differ
EqSumCountsDiffering(p, t) ==
    BroadcastLen(Len(p), Len(t)) - EqSumUpTo(p, t, BroadcastLen(Len(p), Len(t)))

\* pred.eq(target).sum().item(), with broadcasting
EqSum(p, t) == EqSumUpTo(p, t, BroadcastLen(Len(p), Len(t)))

\* ------------------------------------------------------------------------
\* The forward pass's locals at the call model(data)
FwInit(d, id) ==
    [x |-> NoShape, x_prepool |-> NoShape,
     dataIn |-> d, data |-> d, data_pooled |-> NoData,
     attributes |-> NoData, attributes_pooled |-> NoData,
     poolOut |-> NoData, unpoolArg |-> NoData,
     poolCalls |-> 0, unpoolCalls |-> 0, bottleneck |-> 0,
     catWidths |-> <<0, 0>>, block41In |-> 0,
     dropout |-> "none", paramsRead |-> params, id |-> id]

FwIdle == [FwInit(NoData, 0) EXCEPT !.paramsRead = 0]

Fail(e) == pc' = "failed" /\ err' = e

Init ==
    /\ pc = "loop"
    /\ err = ""
    /\ epoch = 0
    /\ lr = [g \in ParamGroups |-> LrInit]
    /\ training = TRUE
    /\ trainV \in [1..NumTrain -> 1..MaxV]
    /\ numNodes = trainV[1]
    /\ net = NetInit(numNodes)
    /\ target = Arange(numNodes)
    /\ numTest \in 0..MaxTest
    /\ remaining = {}
    /\ cur = NoData
    /\ grad = {}
    /\ params = 0
    /\ batchNo = 0
    /\ caller = "none"
    /\ fw = FwIdle
    /\ fwdId = 0
    /\ out = NoShape
    /\ testIdx = 0
    /\ pred = <<>>
    /\ correct = 0
    /\ testAcc = <<0, 0>>
    /\ trainCalls = <<>>
    /\ testCalls = 0
    /\ lrWrites = 0
    /\ stepsInBatch = 0
    /\ steps = <<>>
    /\ testSeen = <<>>
    /\ mismatchUsed = FALSE

\* ------------------------------------------------------------------------
\* The driver: for epoch in range(100): train(epoch); then test_acc = test()
\* variant: an off-by-one loop bound
EpochsRemainOffByOne(e) == e <= NumEpochs

\* range(100)
EpochsRemain(e) == e < NumEpochs

EpochLoop ==
    /\ pc = "loop"
    /\ IF EpochsRemain(epoch)
       THEN /\ pc' = "train_mode"
            /\ trainCalls' = Append(trainCalls, epoch)
            /\ UNCHANGED testCalls
       ELSE /\ pc' = "test_mode"
            /\ testCalls' = testCalls + 1
            /\ UNCHANGED trainCalls
    /\ UNCHANGED <<err, epoch, training, remaining, cur, batchNo, lrWrites,
                   stepsInBatch, steps, testSeen, mismatchUsed>>
    /\ UNCHANGED <<dataVars, optVars, testVars, fwVars>>

\* ------------------------------------------------------------------------
\* train(epoch)

\* model.train()
TrainSetMode ==
    /\ pc = "train_mode"
    /\ training' = TRUE
    /\ pc' = "lr_sched"
    /\ UNCHANGED <<err, epoch, remaining, cur, batchNo>>
    /\ UNCHANGED <<dataVars, optVars, testVars, fwVars, histVars>>

\* variant: the rate is set at every multiple of the drop epoch
LrDropDueEveryMultiple(e) == e % LrDropEpoch = 0

\* if epoch == 60
LrDropDue(e) == e = LrDropEpoch

\* the learning-rate step, then the loader's iterator is created
LrSchedule ==
    /\ pc = "lr_sched"
    /\ IF LrDropDue(epoch)
       THEN /\ lr' = [g \in ParamGroups |-> LrReduced]
            /\ lrWrites' = IF lr' # lr THEN lrWrites + 1 ELSE lrWrites
       ELSE UNCHANGED <<lr, lrWrites>>
    /\ remaining' = 1..NumTrain
    /\ pc' = "next_batch"
    /\ UNCHANGED <<err, epoch, training, cur, batchNo, grad, params,
                   trainCalls, testCalls, stepsInBatch, steps, testSeen,
                   mismatchUsed>>
    /\ UNCHANGED <<dataVars, testVars, fwVars>>

\* for data in train_loader (shuffle=True, batch_size=1); when the loader
\* is exhausted train returns and the epoch loop advances
NextBatch ==
    /\ pc = "next_batch"
    /\ IF remaining = {}
       THEN /\ epoch' = epoch + 1
            /\ pc' = "loop"
            /\ UNCHANGED <<remaining, cur, batchNo, stepsInBatch, steps>>
       ELSE \E s \in remaining :
            /\ remaining' = remaining \ {s}
            /\ cur' = Sample("train", s, trainV[s])
            /\ batchNo' = batchNo + 1
            /\ stepsInBatch' = 0
            /\ steps' = <<>>
            /\ pc' = "to_device"
            /\ UNCHANGED epoch
    /\ UNCHANGED <<err, training, trainCalls, testCalls, lrWrites, testSeen,
                   mismatchUsed>>
    /\ UNCHANGED <<dataVars, optVars, testVars, fwVars>>

\* data = data.to(device)
ToDevice ==
    /\ pc = "to_device"
    /\ steps' = Append(steps, "to_device")
    /\ pc' = "zero_grad"
    /\ UNCHANGED <<err, epoch, training, remaining, cur, batchNo>>
    /\ UNCHANGED <<dataVars, optVars, testVars, fwVars, histRest>>

\* variant: the gradients are not reset
ZeroGradOmitted ==
    /\ pc = "zero_grad"
    /\ grad' = grad
    /\ steps' = Append(steps, "zero_grad")
    /\ pc' = "call_model"
    /\ UNCHANGED <<err, epoch, training, remaining, cur, batchNo, lr, params>>
    /\ UNCHANGED <<dataVars, testVars, fwVars, histRest>>

\* optimizer.zero_grad()
ZeroGrad ==
    /\ pc = "zero_grad"
    /\ grad' = {}
    /\ steps' = Append(steps, "zero_grad")
    /\ pc' = "call_model"
    /\ UNCHANGED <<err, epoch, training, remaining, cur, batchNo, lr, params>>
    /\ UNCHANGED <<dataVars, testVars, fwVars, histRest>>

\* model(data), in F.nll_loss(model(data), target)
TrainCallModel ==
    /\ pc = "call_model"
    /\ caller' = "train"
    /\ fwdId' = fwdId + 1
    /\ fw' = FwInit(cur, fwdId + 1)
    /\ steps' = Append(steps, "forward")
    /\ pc' = "f_lin0"
    /\ UNCHANGED <<err, epoch, training, remaining, cur, batchNo, out>>
    /\ UNCHANGED <<dataVars, optVars, testVars, histRest>>

\* F.nll_loss(input, target): the input has one row per target entry
NllLoss ==
    /\ pc = "nll_loss"
    /\ IF Len(out) = 2 /\ out[1] = Len(target)
          /\ \A i \in 1..Len(target) : target[i] \in 0..(out[2] - 1)
       THEN /\ pc' = "backward"
            /\ steps' = Append(steps, "nll_loss")
            /\ UNCHANGED err
       ELSE /\ Fail("nll_loss: input and target batch sizes differ")
            /\ UNCHANGED steps
    /\ UNCHANGED <<epoch, training, remaining, cur, batchNo>>
    /\ UNCHANGED <<dataVars, optVars, testVars, fwVars, histRest>>

\* .backward(): gradients accumulate into .grad
Backward ==
    /\ pc = "backward"
    /\ grad' = grad \cup {batchNo}
    /\ steps' = Append(steps, "backward")
    /\ pc' = "opt_step"
    /\ UNCHANGED <<err, epoch, training, remaining, cur, batchNo, lr, params>>
    /\ UNCHANGED <<dataVars, testVars, fwVars, histRest>>

\* optimizer.step()
OptStep ==
    /\ pc = "opt_step"
    /\ params' = params + 1
    /\ stepsInBatch' = stepsInBatch + 1
    /\ mismatchUsed' = (mismatchUsed \/ cur.nodes # numNodes)
    /\ steps' = Append(steps, "step")
    /\ pc' = "next_batch"
    /\ UNCHANGED <<err, epoch, training, remaining, cur, batchNo, lr, grad,
                   trainCalls, testCalls, lrWrites, testSeen>>
    /\ UNCHANGED <<dataVars, testVars, fwVars>>

\* ------------------------------------------------------------------------
\* Net.forward(data), one action per statement.  A statement whose operand
\* shapes do not fit raises and ends the run.
FwStep(next, ok, newfw) ==
    /\ IF ok
       THEN fw' = newfw /\ pc' = next /\ UNCHANGED err
       ELSE Fail("shape mismatch at " \o pc) /\ UNCHANGED fw
    /\ UNCHANGED <<epoch, training, remaining, cur, batchNo, caller, fwdId, out>>
    /\ UNCHANGED <<dataVars, optVars, testVars, histVars>>

\* the edges, precomputed operators and connection of one scale of a mesh
Attributes(d, scale, id) ==
    [split |-> d.split, idx |-> d.idx, nodes |-> d.nodes, origin |-> scale, pass |-> id]

\* x = F.relu(self.lin0(data.pos))
FwdLin0 ==
    /\ pc = "f_lin0"
    /\ FwStep("f_lift",
           LinearOk(net.lin0, <<fw.data.nodes, PosDim>>),
           [fw EXCEPT !.x = LinearApply(net.lin0, <<fw.data.nodes, PosDim>>)])

\* x = torch.stack((x, torch.zeros_like(x)), dim=-1).unsqueeze(1)
FwdLift ==
    /\ pc = "f_lift"
    /\ FwStep("f_scale0", TRUE, [fw EXCEPT !.x = ComplexLift(fw.x)])

\* data_scale0 = scale0_transform(data); attributes = (...)
FwdScale0 ==
    /\ pc = "f_scale0"
    /\ FwStep("f_block11", TRUE,
           [fw EXCEPT !.attributes = Attributes(fw.data, "scale0", fw.id)])

\* x = self.resnet_block11(x, *attributes)
FwdBlock11 ==
    /\ pc = "f_block11"
    /\ FwStep("f_block12",
           BlockOk(net.resnet_block11, fw.x, fw.attributes),
           [fw EXCEPT !.x = BlockApply(net.resnet_block11, fw.x)])

\* x_prepool = self.resnet_block12(x, *attributes)
FwdBlock12 ==
    /\ pc = "f_block12"
    /\ FwStep("f_pool",
           BlockOk(net.resnet_block12, fw.x, fw.attributes),
           [fw EXCEPT !.x_prepool = BlockApply(net.resnet_block12, fw.x)])

\* the objects self.pool returns for the mesh d in forward pass id
PoolData(d, id) == [d EXCEPT !.origin = "pool", !.pass = id]
PoolDataPooled(d, id) ==
    [d EXCEPT !.nodes = PooledCount(d.nodes), !.origin = "pooled", !.pass = id]

\* x, data, data_pooled = self.pool(x_prepool, data)
FwdPool ==
    /\ pc = "f_pool"
    /\ FwStep("f_attrs_pooled",
           Len(fw.x_prepool) = 4 /\ fw.x_prepool[1] = fw.data.nodes,
           [fw EXCEPT !.x = SetDim(fw.x_prepool, 1, PooledCount(fw.data.nodes)),
                      !.data = PoolData(fw.data, fw.id),
                      !.data_pooled = PoolDataPooled(fw.data, fw.id),
                      !.poolOut = PoolData(fw.data, fw.id),
                      !.poolCalls = fw.poolCalls + 1,
                      !.bottleneck = 0])

\* attributes_pooled = (data_pooled.edge_index, ...)
FwdAttrsPooled ==
    /\ pc = "f_attrs_pooled"
    /\ FwStep("f_block21", TRUE,
           [fw EXCEPT !.attributes_pooled =
                          Attributes(fw.data_pooled, "scale1", fw.id)])

\* x = self.resnet_blockNN(x, *attributes_pooled), the four bottleneck blocks
Bottleneck(next, b) ==
    FwStep(next, BlockOk(b, fw.x, fw.attributes_pooled),
           [fw EXCEPT !.x = BlockApply(b, fw.x),
                      !.bottleneck = fw.bottleneck + 1])

FwdBlock21 ==
    /\ pc = "f_block21"
    /\ Bottleneck("f_block22", net.resnet_block21)
FwdBlock22 ==
    /\ pc = "f_block22"
    /\ Bottleneck("f_block31", net.resnet_block22)
FwdBlock31 ==
    /\ pc = "f_block31"
    /\ Bottleneck("f_block32", net.resnet_block31)
FwdBlock32 ==
    /\ pc = "f_block32"
    /\ Bottleneck("f_unpool", net.resnet_block32)

\* variant: unpool is given the object forward was called with
UnpoolArgInput == fw.dataIn

\* the mesh-sample object handed to self.unpool
UnpoolArg == fw.data

\* x = self.unpool(x, data): back to the resolution of the object it is given
FwdUnpool ==
    /\ pc = "f_unpool"
    /\ FwStep("f_cat",
           Len(fw.x) = 4 /\ fw.x[1] = PooledCount(UnpoolArg.nodes),
           [fw EXCEPT !.x = SetDim(fw.x, 1, UnpoolArg.nodes),
                      !.unpoolArg = UnpoolArg,
                      !.unpoolCalls = fw.unpoolCalls + 1])

\* the axis of torch.cat((x, x_prepool), dim=2)
CatDim == 2

\* x = torch.cat((x, x_prepool), dim=2)
FwdCat ==
    /\ pc = "f_cat"
    /\ FwStep("f_block41",
           CatOk(fw.x, fw.x_prepool, CatDim),
           [fw EXCEPT !.x = Cat(fw.x, fw.x_prepool, CatDim),
                      !.catWidths = <<fw.x[CatDim + 1], fw.x_prepool[CatDim + 1]>>])

\* x = self.resnet_block41(x, *attributes)
FwdBlock41 ==
    /\ pc = "f_block41"
    /\ FwStep("f_block42",
           BlockOk(net.resnet_block41, fw.x, fw.attributes),
           [fw EXCEPT !.x = BlockApply(net.resnet_block41, fw.x),
                      !.block41In = fw.x[3]])

\* x = self.resnet_block42(x, *attributes)
FwdBlock42 ==
    /\ pc = "f_block42"
    /\ FwStep("f_magnitudes",
           BlockOk(net.resnet_block42, fw.x, fw.attributes),
           [fw EXCEPT !.x = BlockApply(net.resnet_block42, fw.x)])

\* x = magnitudes(x, keepdim=False)
FwdMagnitudes ==
    /\ pc = "f_magnitudes"
    /\ FwStep("f_sum", Len(fw.x) = 4,
           [fw EXCEPT !.x = Magnitudes(fw.x)])

\* x = x.sum(dim=1)
FwdSum ==
    /\ pc = "f_sum"
    /\ FwStep("f_lin3", Len(fw.x) >= 2, [fw EXCEPT !.x = SumDim(fw.x, 1)])

\* x = F.relu(self.lin3(x))
FwdLin3 ==
    /\ pc = "f_lin3"
    /\ FwStep("f_dropout", LinearOk(net.lin3, fw.x),
           [fw EXCEPT !.x = LinearApply(net.lin3, fw.x)])

\* x = F.dropout(x, training=self.training)
FwdDropout ==
    /\ pc = "f_dropout"
    /\ FwStep("f_lin4", TRUE,
           [fw EXCEPT !.dropout = IF training THEN "active" ELSE "disabled"])

\* x = self.lin4(x)
FwdLin4 ==
    /\ pc = "f_lin4"
    /\ FwStep("f_logsoftmax", LinearOk(net.lin4, fw.x),
           [fw EXCEPT !.x = LinearApply(net.lin4, fw.x)])

\* return F.log_softmax(x, dim=1)
FwdLogSoftmax ==
    /\ pc = "f_logsoftmax"
    /\ out' = fw.x
    /\ pc' = IF caller = "train" THEN "nll_loss" ELSE "t_max"
    /\ UNCHANGED <<err, epoch, training, remaining, cur, batchNo, caller, fw, fwdId>>
    /\ UNCHANGED <<dataVars, optVars, testVars, histVars>>

\* ------------------------------------------------------------------------
\* test()

\* variant: the model is left in the mode train() set
TestSetModeNoEval ==
    /\ pc = "test_mode"
    /\ training' = training
    /\ correct' = 0
    /\ testIdx' = 0
    /\ pc' = "t_next"
    /\ UNCHANGED <<err, epoch, remaining, cur, batchNo, pred, testAcc>>
    /\ UNCHANGED <<dataVars, optVars, fwVars, histVars>>

\* model.eval(); correct = 0; the test loader's iterator is created
TestSetMode ==
    /\ pc = "test_mode"
    /\ training' = FALSE
    /\ correct' = 0
    /\ testIdx' = 0
    /\ pc' = "t_next"
    /\ UNCHANGED <<err, epoch, remaining, cur, batchNo, pred, testAcc>>
    /\ UNCHANGED <<dataVars, optVars, fwVars, histVars>>

\* for i, data in enumerate(test_loader): the loader yields the samples in
\* order; the vertex count of a test mesh is fixed when it is read
TestNext ==
    /\ pc = "t_next"
    /\ IF testIdx < numTest
       THEN \E v \in 1..MaxV :
            /\ cur' = Sample("test", testIdx + 1, v)
            /\ testIdx' = testIdx + 1
            /\ pc' = "t_call"
       ELSE /\ pc' = "t_return"
            /\ UNCHANGED <<cur, testIdx>>
    /\ UNCHANGED <<err, epoch, training, remaining, batchNo, pred, correct, testAcc>>
    /\ UNCHANGED <<dataVars, optVars, fwVars, histVars>>

\* model(data.to(device))
TestCallModel ==
    /\ pc = "t_call"
    /\ caller' = "test"
    /\ fwdId' = fwdId + 1
    /\ fw' = FwInit(cur, fwdId + 1)
    /\ pc' = "f_lin0"
    /\ UNCHANGED <<err, epoch, training, remaining, cur, batchNo, out>>
    /\ UNCHANGED <<dataVars, optVars, testVars, histVars>>

\* pred = (...).max(1)[1]: for each row the index of its largest entry
TestMax ==
    /\ pc = "t_max"
    /\ IF Len(out) = 2 /\ out[2] >= 1
       THEN /\ pred' \in [1..out[1] -> 0..(out[2] - 1)]
            /\ pc' = "t_eq"
            /\ UNCHANGED err
       ELSE Fail("max: no such dimension") /\ UNCHANGED pred
    /\ UNCHANGED <<epoch, training, remaining, cur, batchNo, testIdx, correct, testAcc>>
    /\ UNCHANGED <<dataVars, optVars, fwVars, histVars>>

\* variant: the evaluation loop also applies an optimizer step
TestEqWithOptStep ==
    /\ pc = "t_eq"
    /\ IF BroadcastOk(Len(pred), Len(target))
       THEN /\ correct' = correct + EqSum(pred, target)
            /\ mismatchUsed' = (mismatchUsed \/ cur.nodes # numNodes)
            /\ testSeen' = Append(testSeen, cur.idx)
            /\ params' = params + 1
            /\ pc' = "t_next"
            /\ UNCHANGED err
       ELSE /\ Fail("eq: tensor sizes must match")
            /\ UNCHANGED <<correct, mismatchUsed, testSeen, params>>
    /\ UNCHANGED <<epoch, training, remaining, cur, batchNo, testIdx, pred, testAcc,
                   trainCalls, testCalls, lrWrites, stepsInBatch, steps>>
    /\ UNCHANGED <<dataVars, lr, grad, fwVars>>

\* correct += pred.eq(target).sum().item()
TestEq ==
    /\ pc = "t_eq"
    /\ IF BroadcastOk(Len(pred), Len(target))
       THEN /\ correct' = correct + EqSum(pred, target)
            /\ mismatchUsed' = (mismatchUsed \/ cur.nodes # numNodes)
            /\ testSeen' = Append(testSeen, cur.idx)
            /\ pc' = "t_next"
            /\ UNCHANGED err
       ELSE /\ Fail("eq: tensor sizes must match")
            /\ UNCHANGED <<correct, mismatchUsed, testSeen>>
    /\ UNCHANGED <<epoch, training, remaining, cur, batchNo, testIdx, pred, testAcc,
                   trainCalls, testCalls, lrWrites, stepsInBatch, steps>>
    /\ UNCHANGED <<dataVars, optVars, fwVars>>

\* return correct / (len(test_dataset) * num_nodes)
TestReturn ==
    /\ pc = "t_return"
    /\ IF numTest * numNodes # 0
       THEN /\ testAcc' = <<correct, numTest * numNodes>>
            /\ pc' = "print"
            /\ UNCHANGED err
       ELSE Fail("ZeroDivisionError") /\ UNCHANGED testAcc
    /\ UNCHANGED <<epoch, training, remaining, cur, batchNo, testIdx, pred, correct>>
    /\ UNCHANGED <<dataVars, optVars, fwVars, histVars>>

\* print('Test: {:.6f}'.format(test_acc)); the script ends
PrintAcc ==
    /\ pc = "print"
    /\ pc' = "done"
    /\ UNCHANGED <<err, epoch, training, remaining, cur, batchNo>>
    /\ UNCHANGED <<dataVars, optVars, testVars, fwVars, histVars>>

\* ------------------------------------------------------------------------
Next ==
    \/ EpochLoop
    \/ TrainSetMode \/ LrSchedule \/ NextBatch \/ ToDevice \/ ZeroGrad
    \/ TrainCallModel \/ NllLoss \/ Backward \/ OptStep
    \/ FwdLin0 \/ FwdLift \/ FwdScale0 \/ FwdBlock11 \/ FwdBlock12
    \/ FwdPool \/ FwdAttrsPooled
    \/ FwdBlock21 \/ FwdBlock22 \/ FwdBlock31 \/ FwdBlock32
    \/ FwdUnpool \/ FwdCat \/ FwdBlock41 \/ FwdBlock42
    \/ FwdMagnitudes \/ FwdSum \/ FwdLin3 \/ FwdDropout \/ FwdLin4
    \/ FwdLogSoftmax
    \/ TestSetMode \/ TestNext \/ TestCallModel \/ TestMax \/ TestEq
    \/ TestReturn \/ PrintAcc

Spec == Init /\ [][Next]_vars

\* the script runs to its end: no statement waits for anything
FairSpec == Spec /\ WF_vars(Next)

Terminated == pc \in {"done", "failed"}

\* ------------------------------------------------------------------------
\* Positions
FwdPcs ==
    {"f_lin0", "f_lift", "f_scale0", "f_block11", "f_block12", "f_pool",
     "f_attrs_pooled", "f_block21", "f_block22", "f_block31", "f_block32",
     "f_unpool", "f_cat", "f_block41", "f_block42", "f_magnitudes", "f_sum",
     "f_lin3", "f_dropout", "f_lin4", "f_logsoftmax"}
AfterUnpoolPcs ==
    {"f_cat", "f_block41", "f_block42", "f_magnitudes", "f_sum", "f_lin3",
     "f_dropout", "f_lin4", "f_logsoftmax"}
TrainBatchPcs ==
    {"to_device", "zero_grad", "call_model", "nll_loss", "backward", "opt_step"}
TestPcs == {"test_mode", "t_next", "t_call", "t_max", "t_eq", "t_return"}

InTrainForward == pc \in FwdPcs /\ caller = "train"
InTestForward == pc \in FwdPcs /\ caller = "test"
InTrainBatch == pc \in TrainBatchPcs \/ InTrainForward
InTrain == pc \in {"train_mode", "lr_sched", "next_batch"} \/ InTrainBatch
InTest == pc \in TestPcs \/ InTestForward
BatchOrder == <<"to_device", "zero_grad", "forward", "nll_loss", "backward", "step">>
IsPrefix(a, b) == Len(a) <= Len(b) /\ a = SubSeq(b, 1, Len(a))

C2_Inv ==
    /\ trainCalls = [i \in 1..Len(trainCalls) |-> i - 1]
    /\ Len(trainCalls) <= NumEpochs
    /\ testCalls <= 1
    /\ InTrain => /\ Len(trainCalls) = epoch + 1
                  /\ testCalls = 0
    /\ (InTest \/ pc \in {"print", "done"}) =>
                  /\ Len(trainCalls) = NumEpochs
                  /\ testCalls = 1
                  /\ epoch = NumEpochs
                  /\ remaining = {}
                  /\ batchNo = NumEpochs * NumTrain
                  /\ params = NumEpochs * NumTrain
    /\ testCalls = 1 => ~InTrain

C2_EpochsThenTest == []C2_Inv /\ <>Terminated

C2_Witness ==
    /\ pc = "done"
    /\ Len(trainCalls) = NumEpochs
    /\ testCalls = 1

\* C3: test() compares every test sample exactly once, adds to correct the
\* number of vertices whose prediction equals the target, and returns
\* correct / (len(test_dataset) * num_nodes); when every test sample has
\* num_nodes vertices, correct never exceeds (samples compared) * num_nodes
\* and the returned accuracy lies in [0, 1].
C3_Accuracy ==
    /\ [](IsPrefix(testSeen, [i \in 1..numTest |-> i]))
    /\ [](pc \in {"t_return", "print", "done"} => Len(testSeen) = numTest)
    /\ [](pc \in {"print", "done"} => testAcc = <<correct, numTest * numNodes>>)
    /\ [](~mismatchUsed =>
            /\ correct \in 0..(Len(testSeen) * numNodes)
            /\ pc \in {"print", "done"} =>
                 /\ testAcc[2] > 0
                 /\ 0 <= testAcc[1] /\ testAcc[1] <= testAcc[2])
    /\ [][(pc = "t_eq" /\ pc' = "t_next" /\ cur.nodes = numNodes) =>
            correct' = correct
                + Cardinality({i \in 1..numNodes : pred[i] = target[i]})]_vars

C3_Witness ==
    /\ pc = "done"
    /\ ~mismatchUsed
    /\ numTest >= 2
    /\ numNodes >= 2
    /\ testAcc[1] > 0
    /\ testAcc[1] < testAcc[2]

\* C4: in every forward pass unpool is invoked exactly once, after the pool
\* and after all four bottleneck blocks, and the object it receives is the
\* one the pool call of the same forward pass returned.
C4_UnpoolPairing ==
    /\ fw.poolCalls <= 1
    /\ fw.unpoolCalls <= 1
    /\ (pc \in AfterUnpoolPcs \cup {"nll_loss", "backward", "opt_step", "t_max", "t_eq"})
          => fw.unpoolCalls = 1
    /\ (pc \in FwdPcs \ AfterUnpoolPcs) => fw.unpoolCalls = 0
    /\ fw.unpoolCalls = 1 =>
          /\ fw.poolCalls = 1
          /\ fw.bottleneck = 4
          /\ fw.unpoolArg = fw.poolOut
          /\ fw.unpoolArg.origin = "pool"
          /\ fw.unpoolArg.pass = fw.id
          /\ fw.unpoolArg.split = fw.dataIn.split
          /\ fw.unpoolArg.idx = fw.dataIn.idx
    /\ pc \in FwdPcs =>
          /\ fw.id = fwdId
          /\ fw.dataIn = cur

C4_Witness ==
    /\ pc = "f_cat"
    /\ caller = "test"
    /\ fwdId > NumEpochs * NumTrain + 1
    /\ fw.unpoolCalls = 1
    /\ fw.unpoolArg.pass = fwdId

\* C5: a sample whose vertex count differs from num_nodes makes the run
\* fail at the step that processes it: no optimizer step is applied for
\* such a batch, no such test sample contributes to correct, and no
\* accuracy is reported from it.
C5_FailFast ==
    /\ pc \in {"backward", "opt_step"} => cur.nodes = numNodes
    /\ ~mismatchUsed

\* C6: the tensor Net.forward returns has one distribution per vertex, each
\* of length num_nodes, which is also the length of the target; num_nodes
\* and the target never change.
C6_OutputLength ==
    /\ [](pc \in {"nll_loss", "t_max"} =>
            /\ Len(out) = 2
            /\ out[1] = cur.nodes
            /\ out[2] = numNodes
            /\ out[2] = Len(target))
    /\ [](target = [i \in 1..numNodes |-> i - 1] /\ numNodes = trainV[1])
    /\ [][numNodes' = numNodes /\ target' = target]_vars

C6_Witness ==
    /\ pc = "t_max"
    /\ cur.nodes # numNodes
    /\ numNodes >= 2
    /\ out = <<cur.nodes, numNodes>>

\* C7: every forward pass inside train() runs with the training flag set
\* (dropout active) and every forward pass inside test() with the flag
\* cleared (dropout disabled).
C7_DropoutMode ==
    /\ InTrainForward => training
    /\ InTestForward => ~training
    /\ (pc \in {"f_lin4", "f_logsoftmax", "nll_loss", "backward", "opt_step"}
            /\ caller = "train") => fw.dropout = "active"
    /\ (pc \in {"f_lin4", "f_logsoftmax", "t_max", "t_eq"}
            /\ caller = "test") => fw.dropout = "disabled"

C7_Witness ==
    /\ pc = "f_lin4"
    /\ caller = "test"
    /\ fw.dropout = "disabled"
    /\ testIdx = 2

\* C8: for every training batch the steps are, in this order, to-device,
\* zero-grad, forward, loss, backward, one optimizer step; the gradient an
\* optimizer step uses comes from the current batch only, exactly one step
\* is applied per batch, and the parameters do not change during a forward
\* or backward pass.
C8_BatchOrder ==
    /\ [](InTrainBatch => IsPrefix(steps, BatchOrder))
    /\ [](pc = "next_batch" /\ batchNo > 0 =>
            steps = BatchOrder /\ stepsInBatch = 1)
    /\ [](pc = "backward" => grad = {})
    /\ [](pc = "opt_step" => grad = {batchNo})
    /\ [](pc \in {"next_batch", "loop", "train_mode", "lr_sched"} => params = batchNo)
    /\ [][(pc \in FwdPcs \cup {"call_model", "nll_loss", "backward"}) =>
            params' = params]_vars
    /\ [][params' # params =>
            (pc = "opt_step" /\ params' = params + 1 /\ fw.paramsRead = params)]_vars

C8_Witness ==
    /\ pc = "next_batch"
    /\ batchNo = 2
    /\ steps = BatchOrder
    /\ stepsInBatch = 1
    /\ params = 2

\* C9 as stated: the width fed to resnet_block41 is twice the channel count
\* of a tensor of the concatenation and equals the width the block was
\* built with.
C9_Doubles ==
    fw.block41In # 0 =>
        /\ \/ fw.block41In = 2 * fw.catWidths[1]
           \/ fw.block41In = 2 * fw.catWidths[2]
        /\ fw.block41In = net.resnet_block41.in

\* C9 amended: the unpooled features (nf[1] = 32 channels) are concatenated
\* with x_prepool (nf[0] = 16 channels) along the channel axis; the width
\* fed to resnet_block41 is the sum of the two, 48, which is the width the
\* block was built with.
C9_ConcatWidth ==
    /\ (pc \in {"f_block41", "f_block42"} \/ fw.block41In # 0) =>
          /\ fw.catWidths = <<nf[2], nf[1]>>
          /\ fw.catWidths[2] = fw.x_prepool[3]
    /\ pc = "f_block41" =>
          /\ fw.x[3] = fw.catWidths[1] + fw.catWidths[2]
          /\ fw.x[3] = net.resnet_block41.in
          /\ fw.x[1] = fw.x_prepool[1] /\ fw.x[2] = fw.x_prepool[2]
    /\ fw.block41In # 0 =>
          /\ fw.block41In = fw.catWidths[1] + fw.catWidths[2]
          /\ fw.block41In = net.resnet_block41.in
          /\ fw.block41In = 48
    /\ err \notin {"shape mismatch at f_cat", "shape mismatch at f_block41"}

C9_Witness ==
    /\ pc = "f_block42"
    /\ fw.block41In = 48
    /\ fw.catWidths = <<32, 16>>

\* C10: test() leaves the parameters, the gradients and the learning rate
\* unchanged; every test sample is evaluated with the parameters the last
\* training batch of epoch 99 left; of the program's state test() changes
\* only the mode flag, its local variables and those of the forward pass.
C10_EvalFrame ==
    /\ [](InTest => params = NumEpochs * NumTrain)
    /\ [](InTestForward => fw.paramsRead = NumEpochs * NumTrain)
    /\ [][InTest =>
            /\ params' = params /\ grad' = grad /\ lr' = lr
            /\ epoch' = epoch /\ batchNo' = batchNo /\ remaining' = remaining
            /\ net' = net /\ numNodes' = numNodes /\ target' = target]_vars
    /\ [][(InTest /\ training' # training) => (pc = "test_mode" /\ ~training')]_vars

C10_Witness ==
    /\ pc = "t_next"
    /\ testIdx = 2
    /\ Len(testSeen) = 2
    /\ params = NumEpochs * NumTrain
    /\ ~training

====
